---------------------------- MODULE Spec2Model ----------------------------
(***************************************************************************)
(* Model of pylocus/edm_completion.py: the three EDM completers optspace,  *)
(* rank_alternation and semidefinite_relaxation.                           *)
(*                                                                         *)
(* One call is modelled at a time.  The initial state holds the caller's   *)
(* arguments; the actions are the steps of the called function.            *)
(*                                                                         *)
(* Numbers.  The code computes in floating point; the model computes in    *)
(* exact arithmetic, plus the value NaN that numpy produces for the mean   *)
(* of an empty selection (a reserved integer no computation reaches).      *)
(*  - optspace / rank_alternation: a real x is the integer x * Unit, where *)
(*    Unit = 2 * lcm(1 .. N*N), so that the mean of up to N*N entries and  *)
(*    the halving 0.5 * (a + b) stay integers.                             *)
(*  - semidefinite_relaxation: V holds 1/sqrt(n), so a real is the pair    *)
(*    <<p, q>> standing for (p + q*sqrt(N)) / K, K = (N*N - N)^2.          *)
(***************************************************************************)
EXTENDS Integers, Sequences, FiniteSets

\* N = edm_missing.shape[0]: the order of the square matrices.  The calls
\* explored are the calls on matrices of this order.
N == 2
\* Entries of the caller's masked EDM range over 0 .. MaxVal (0: unobserved).
MaxVal == 2
\* niter ranges over 0 .. MaxIter.
MaxIter == 2

Idx == 1..N
\* numpy's nan, kept apart from every number the model computes.
NaN == -1000000
\* Python's None where a matrix may stand.
NoMatrix == <<>>

VARIABLES
    fn,            \* the function called
    pc,            \* position of the call
    edm_missing,   \* the caller's masked EDM (read through the parameter)
    edm_true,      \* the caller's ground-truth EDM, or None
    W,             \* the caller's weight matrix, or None
    caller,        \* the caller's matrices as they were when the call started
    rank,          \* parameter rank
    niter,         \* parameter niter
    method,        \* kwargs 'method'
    i,             \* loop counter of rank_alternation
    edm_complete,  \* local edm_complete
    errs,          \* local errs
    W_local,       \* local W of semidefinite_relaxation after lines 84-87
    H_value,       \* H.value after prob.solve
    status,        \* prob.status
    solver_calls,  \* number of prob.solve invocations of this call
    exc,           \* the exception that ended the call, or None
    result         \* the returned value, or None

vars == <<fn, pc, edm_missing, edm_true, W, caller, rank, niter, method, i,
          edm_complete, errs, W_local, H_value, status, solver_calls, exc, result>>

--------------------------------------------------------------------------
(* Integer helpers *)

RECURSIVE GCD(_, _)
GCD(a, b) == IF b = 0 THEN a ELSE GCD(b, a % b)

RECURSIVE LCMUpTo(_)
LCMUpTo(k) == IF k <= 1 THEN 1 ELSE LET l == LCMUpTo(k - 1) IN (l * k) \div GCD(l, k)

Unit == 2 * LCMUpTo(N * N)

Matrices(S) == [Idx -> [Idx -> S]]

RECURSIVE SumSeq(_)
SumSeq(s) == IF s = <<>> THEN 0 ELSE Head(s) + SumSeq(Tail(s))

\* The entries of a matrix in row-major order (numpy's order of M[mask]).
Flat(M) == [k \in 1..(N * N) |-> M[((k - 1) \div N) + 1][((k - 1) % N) + 1]]

--------------------------------------------------------------------------
(* Floating-point values: integers (scaled reals) and NaN *)

IsNaN(x) == x = NaN
Gt0(x) == (~IsNaN(x)) /\ x > 0
Lt0(x) == (~IsNaN(x)) /\ x < 0
Eq0(x) == (~IsNaN(x)) /\ x = 0
\* numpy's elementwise ==: false as soon as one side is NaN.
NumEq(x, y) == (~IsNaN(x)) /\ (~IsNaN(y)) /\ x = y
Add(x, y) == IF IsNaN(x) \/ IsNaN(y) THEN NaN ELSE x + y
Half(x) == IF IsNaN(x) THEN NaN ELSE x \div 2
HasNaN(M) == \E a, b \in Idx : IsNaN(M[a][b])

\* np.mean(edm_complete[edm_complete > 0]); the mean of no entry is NaN.
MeanPositive(M) ==
    LET sel == SelectSeq(Flat(M), Gt0)
    IN IF sel = <<>> THEN NaN ELSE SumSeq(sel) \div Len(sel)

\* edm_complete[edm_complete == 0] = np.mean(edm_complete[edm_complete > 0])
FillMissing(M) ==
    LET m == MeanPositive(M)
    IN [a \in Idx |-> [b \in Idx |-> IF Eq0(M[a][b]) THEN m ELSE M[a][b]]]

\* edm_complete[edm_missing > 0] = edm_missing[edm_missing > 0], without the re-imposition
ImposeKnownDropped(M, missing) == M

\* edm_complete[edm_missing > 0] = edm_missing[edm_missing > 0]
ImposeKnown(M, missing) ==
    [a \in Idx |-> [b \in Idx |-> IF Gt0(missing[a][b]) THEN missing[a][b] ELSE M[a][b]]]

\* the diagonal left as it is
ZeroDiagonalDropped(M) == M

\* edm_complete[range(N), range(N)] = 0.0
ZeroDiagonal(M) ==
    [a \in Idx |-> [b \in Idx |-> IF a = b THEN 0 ELSE M[a][b]]]

\* the negative entries left as they are
ClipNegativeDropped(M) == M

\* edm_complete[edm_complete < 0] = 0.0
ClipNegative(M) ==
    [a \in Idx |-> [b \in Idx |-> IF Lt0(M[a][b]) THEN 0 ELSE M[a][b]]]

\* edm_complete + edm_complete.T, the factor 0.5 forgotten
SymmetrizeNoHalf(M) ==
    [a \in Idx |-> [b \in Idx |-> Add(M[a][b], M[b][a])]]

\* the matrix left as it is
SymmetrizeDropped(M) == M

\* edm_complete = 0.5 * (edm_complete + edm_complete.T)
Symmetrize(M) ==
    [a \in Idx |-> [b \in Idx |-> Half(Add(M[a][b], M[b][a]))]]

\* The structural step of one iteration: zero diagonal, clip, symmetrize.
ImposeStructure(M) == Symmetrize(ClipNegative(ZeroDiagonal(M)))

\* np.linalg.norm(edm_complete - edm_true), recorded as its square (the
\* Frobenius norm is the square root of this sum).
NormSq(A, B) ==
    IF HasNaN(A) \/ HasNaN(B) THEN NaN
    ELSE SumSeq([k \in 1..(N * N) |->
             LET d == Flat(A)[k] - Flat(B)[k] IN d * d])


--------------------------------------------------------------------------
(* External collaborators of rank_alternation and optspace *)

\* Values an entry of a low-rank approximation may take (scaled by Unit):
\* one negative and two positive ones.
LRAVals == {-Unit, Unit, 3 * Unit}

AllNaN == [a \in Idx |-> [b \in Idx |-> NaN]]

\* low_rank_approximation(edm_complete, rank) from .basics: some matrix of
\* the same shape.  On a matrix that holds NaN the decomposition yields NaN
\* everywhere (or fails, see RA_LinAlgError).
LowRankOutcomes(M, r) == IF HasNaN(M) THEN {AllNaN} ELSE Matrices(LRAVals)

\* Entries of the factors X, S, Y returned by opt_space.
FactorVals == {-1, 1, 2}

\* X.dot(S.dot(Y.T)) for X, Y of shape N x rank and S of shape rank x rank.
Dot3(X, S, Y, r) ==
    [a \in Idx |-> [b \in Idx |->
        SumSeq([k \in 1..(r * r) |->
            LET p == ((k - 1) \div r) + 1
                q == ((k - 1) % r) + 1
            IN X[a][p] * S[p][q] * Y[b][q]])]]

--------------------------------------------------------------------------
(* The caller's arguments *)

InputVals == {v * Unit : v \in 0..MaxVal}

\* Ground-truth EDMs offered for edm_true: equidistant points.
TrueEDMs == {[a \in Idx |-> [b \in Idx |-> IF a = b THEN 0 ELSE Unit]]}

Snapshot(e, t, w) == [edm_missing |-> e, edm_true |-> t, W |-> w]

InitRA ==
    /\ fn = "rank_alternation"
    /\ pc = "Called"
    /\ edm_missing \in Matrices(InputVals)
    /\ edm_true \in {NoMatrix} \cup TrueEDMs
    /\ W = NoMatrix
    /\ caller = Snapshot(edm_missing, edm_true, W)
    /\ rank \in 1..(N - 1)
    /\ niter \in 0..MaxIter
    /\ method = "None"
    /\ i = 0
    /\ edm_complete = NoMatrix
    /\ errs = <<>>
    /\ W_local = NoMatrix
    /\ H_value = NoMatrix
    /\ status = "None"
    /\ solver_calls = 0
    /\ exc = "None"
    /\ result = NoMatrix

InitOS ==
    /\ fn = "optspace"
    /\ pc = "Called"
    /\ edm_missing \in Matrices(InputVals)
    /\ edm_true = NoMatrix
    /\ W = NoMatrix
    /\ caller = Snapshot(edm_missing, edm_true, W)
    /\ rank \in 1..(N - 1)
    /\ niter = 0
    /\ method = "None"
    /\ i = 0
    /\ edm_complete = NoMatrix
    /\ errs = <<>>
    /\ W_local = NoMatrix
    /\ H_value = NoMatrix
    /\ status = "None"
    /\ solver_calls = 0
    /\ exc = "None"
    /\ result = NoMatrix

--------------------------------------------------------------------------
(* rank_alternation *)

\* lines 47-50: errs = [], the working copy, the unobserved entries filled
RA_Start ==
    /\ fn = "rank_alternation" /\ pc = "Called"
    /\ errs' = <<>>
    /\ edm_complete' = FillMissing(edm_missing)
    /\ i' = 0
    /\ pc' = "Loop"
    /\ UNCHANGED <<fn, edm_missing, edm_true, W, caller, rank, niter, method,
                   W_local, H_value, status, solver_calls, exc, result>>

\* lines 51-65: one iteration of the loop
RA_Iterate ==
    /\ fn = "rank_alternation" /\ pc = "Loop"
    /\ i < niter
    /\ \E L \in LowRankOutcomes(edm_complete, rank) :
        LET next == ImposeStructure(ImposeKnown(L, edm_missing))
        IN /\ edm_complete' = next
           /\ errs' = IF edm_true # NoMatrix
                      THEN Append(errs, NormSq(next, edm_true))
                      ELSE errs
    /\ i' = i + 1
    /\ UNCHANGED <<fn, pc, edm_missing, edm_true, W, caller, rank, niter, method,
                   W_local, H_value, status, solver_calls, exc, result>>

\* line 53: the decomposition inside low_rank_approximation fails on a
\* matrix holding NaN and the exception propagates
RA_LinAlgError ==
    /\ fn = "rank_alternation" /\ pc = "Loop"
    /\ i < niter
    /\ HasNaN(edm_complete)
    /\ pc' = "Raised"
    /\ exc' = "LinAlgError"
    /\ UNCHANGED <<fn, edm_missing, edm_true, W, caller, rank, niter, method, i,
                   edm_complete, errs, W_local, H_value, status, solver_calls, result>>

\* line 66: return edm_complete, errs
RA_Return ==
    /\ fn = "rank_alternation" /\ pc = "Loop"
    /\ ~(i < niter)
    /\ result' = edm_complete
    /\ pc' = "Returned"
    /\ UNCHANGED <<fn, edm_missing, edm_true, W, caller, rank, niter, method, i,
                   edm_complete, errs, W_local, H_value, status, solver_calls, exc>>

--------------------------------------------------------------------------
(* optspace *)

\* lines 21-25: opt_space returns the factors, edm_complete = X.dot(S.dot(Y.T))
OS_Factorize ==
    /\ fn = "optspace" /\ pc = "Called"
    /\ \E X, Y \in [Idx -> [1..rank -> FactorVals]],
          S \in [1..rank -> [1..rank -> {v * Unit : v \in FactorVals}]] :
        edm_complete' = Dot3(X, S, Y, rank)
    /\ pc' = "Factorized"
    /\ UNCHANGED <<fn, edm_missing, edm_true, W, caller, rank, niter, method, i,
                   errs, W_local, H_value, status, solver_calls, exc, result>>

\* lines 26-27: zero diagonal, return
OS_Return ==
    /\ fn = "optspace" /\ pc = "Factorized"
    /\ result' = ZeroDiagonal(edm_complete)
    /\ edm_complete' = ZeroDiagonal(edm_complete)
    /\ pc' = "Returned"
    /\ UNCHANGED <<fn, edm_missing, edm_true, W, caller, rank, niter, method, i,
                   errs, W_local, H_value, status, solver_calls, exc>>

--------------------------------------------------------------------------
(* Numbers of semidefinite_relaxation: <<p, q>> is (p + q * sqrt(N)) / K *)

K == (N * N - N) * (N * N - N)

Q(p) == <<p, 0>>
QAdd(x, y) == <<x[1] + y[1], x[2] + y[2]>>
QSub(x, y) == <<x[1] - y[1], x[2] - y[2]>>
QMul(x, y) == <<x[1] * y[1] + N * x[2] * y[2], x[1] * y[2] + x[2] * y[1]>>

RECURSIVE QSum(_)
QSum(s) == IF s = <<>> THEN Q(0) ELSE QAdd(Head(s), QSum(Tail(s)))

\* p + q * sqrt(N) > 0, for N not a perfect square
QGt0(x) ==
    \/ x[1] > 0 /\ x[2] >= 0
    \/ x[1] >= 0 /\ x[2] > 0
    \/ x[1] > 0 /\ x[2] < 0 /\ x[1] * x[1] > N * x[2] * x[2]
    \/ x[1] < 0 /\ x[2] > 0 /\ N * x[2] * x[2] > x[1] * x[1]

QEq0(x) == x = Q(0)

\* the term - 2 * gram written - gram
kappaWrong(gram) ==
    [a \in Idx |-> [b \in Idx |->
        QSub(QAdd(QMul(gram[a][a], Q(1)), QMul(Q(1), gram[b][b])), gram[a][b])]]

\* lines 71-74: np.outer(np.diag(gram), e) + np.outer(e, np.diag(gram).T) - 2 * gram
kappa(gram) ==
    LET e == [a \in Idx |-> Q(1)]
        d == [a \in Idx |-> gram[a][a]]
        outer(u, v) == [a \in Idx |-> [b \in Idx |-> QMul(u[a], v[b])]]
        left == outer(d, e)
        right == outer(e, d)
    IN [a \in Idx |-> [b \in Idx |->
           QSub(QAdd(left[a][b], right[a][b]), QMul(Q(2), gram[a][b]))]]

\* lines 76-78: diag(gram) * e.T + e * diag(gram).T - 2 * gram, the products
\* being matrix products of an n x 1 by a 1 x n expression
kappa_cvx(gram, n) ==
    LET e == [a \in 1..n |-> [c \in 1..1 |-> Q(1)]]
        d == [a \in 1..n |-> [c \in 1..1 |-> gram[a][a]]]
        T(m) == [c \in 1..1 |-> [a \in 1..n |-> m[a][c]]]
        mul(A, B) == [a \in 1..n |-> [b \in 1..n |->
                         QSum([c \in 1..1 |-> QMul(A[a][c], B[c][b])])]]
        left == mul(d, T(e))
        right == mul(e, T(d))
    IN [a \in 1..n |-> [b \in 1..n |->
           QSub(QAdd(left[a][b], right[a][b]), QMul(Q(2), gram[a][b]))]]

\* lines 90-91: V = np.c_[-ones(n-1)/sqrt(n), eye(n-1) - ones([n-1,n-1])/(n+sqrt(n))].T,
\* times n*n - n:  -1/sqrt(n) = -(n-1)*sqrt(n) / (n*n - n),
\*                 1/(n + sqrt(n)) = (n - sqrt(n)) / (n*n - n)
V ==
    [a \in Idx |-> [k \in 1..(N - 1) |->
        IF a = 1 THEN <<0, -(N - 1)>>
        ELSE <<(IF a - 1 = k THEN N * N - N ELSE 0) - N, 1>>]]

\* V * H * V.T (matrix products), in units of 1/K
VHVt(H) ==
    [a \in Idx |-> [b \in Idx |->
        QSum([c \in 1..((N - 1) * (N - 1)) |->
            LET k == ((c - 1) \div (N - 1)) + 1
                l == ((c - 1) % (N - 1)) + 1
            IN QMul(QMul(V[a][k], H[k][l]), V[b][l])])]]

\* line 85: W = (edm_missing > 0)
Mask(missing) == [a \in Idx |-> [b \in Idx |-> IF QGt0(missing[a][b]) THEN 1 ELSE 0]]

\* line 87: W[edm_missing == 0] = 0.0
ZeroUnobserved(w, missing) ==
    [a \in Idx |-> [b \in Idx |-> IF QEq0(missing[a][b]) THEN 0 ELSE w[a][b]]]

\* the fallback returning an all-zero matrix instead of the input
CompletedNoFallback(H, missing) ==
    IF H # NoMatrix THEN kappa(VHVt(H)) ELSE [a \in Idx |-> [b \in Idx |-> Q(0)]]

\* lines 110-116: Gbest = V * H.value * V.T and edm_complete = kappa(Gbest),
\* or the input itself (Gbest is bound as a value, computed once)
Completed(H, missing) ==
    IF H # NoMatrix
    THEN CHOOSE c \in {kappa(Gbest) : Gbest \in {VHVt(H)}} : TRUE
    ELSE missing

\* Values of H.value the solver may produce.
HValues == [1..(N - 1) -> [1..(N - 1) -> {Q(h) : h \in 0..MaxVal}]]

Methods == {"maximize", "minimize", "other"}

InitSDR ==
    /\ fn = "semidefinite_relaxation"
    /\ pc = "Init"
    /\ edm_missing \in Matrices({Q(v * K) : v \in 0..MaxVal})
    /\ edm_true = NoMatrix
    /\ W \in {NoMatrix} \cup Matrices({0, 1})
    /\ caller = Snapshot(edm_missing, edm_true, W)
    /\ rank = 0
    /\ niter = 0
    /\ method \in Methods
    /\ i = 0
    /\ edm_complete = NoMatrix
    /\ errs = <<>>
    /\ W_local = NoMatrix
    /\ H_value = NoMatrix
    /\ status = "None"
    /\ solver_calls = 0
    /\ exc = "None"
    /\ result = NoMatrix

--------------------------------------------------------------------------
(* semidefinite_relaxation *)

\* lines 80-91: method, options, the weight matrix, the basis V
SDR_BuildBasis ==
    /\ fn = "semidefinite_relaxation" /\ pc = "Init"
    /\ IF W = NoMatrix
       THEN /\ W_local' = Mask(edm_missing)
            /\ W' = W
       ELSE /\ W' = ZeroUnobserved(W, edm_missing)
            /\ W_local' = ZeroUnobserved(W, edm_missing)
    /\ pc' = "BasisBuilt"
    /\ UNCHANGED <<fn, edm_missing, edm_true, caller, rank, niter, method, i,
                   edm_complete, errs, H_value, status, solver_calls, exc, result>>

\* lines 94-103: H, G, edm_optimize, the objective, the problem
SDR_Assemble ==
    /\ fn = "semidefinite_relaxation" /\ pc = "BasisBuilt"
    /\ method \in {"maximize", "minimize"}
    /\ pc' = "ProblemAssembled"
    /\ UNCHANGED <<fn, edm_missing, edm_true, W, caller, rank, niter, method, i,
                   edm_complete, errs, W_local, H_value, status, solver_calls, exc, result>>

\* line 103: neither branch of lines 98-101 bound obj
SDR_UnboundObjective ==
    /\ fn = "semidefinite_relaxation" /\ pc = "BasisBuilt"
    /\ method \notin {"maximize", "minimize"}
    /\ pc' = "Raised"
    /\ exc' = "UnboundLocalError"
    /\ UNCHANGED <<fn, edm_missing, edm_true, W, caller, rank, niter, method, i,
                   edm_complete, errs, W_local, H_value, status, solver_calls, result>>

\* prob.solve invoked a second time when the first gave no value
SDR_SolveRetry ==
    /\ fn = "semidefinite_relaxation" /\ pc = "ProblemAssembled"
    /\ \E st \in {"optimal", "infeasible", "solver_error"} :
        /\ status' = st
        /\ IF st = "optimal"
           THEN /\ H_value' \in HValues
                /\ solver_calls' = solver_calls + 1
           ELSE /\ H_value' = NoMatrix
                /\ solver_calls' = solver_calls + 2
    /\ pc' = "Solved"
    /\ UNCHANGED <<fn, edm_missing, edm_true, W, caller, rank, niter, method, i,
                   edm_complete, errs, W_local, exc, result>>

\* line 105: total = prob.solve(**options), the solver returning
SDR_Solve ==
    /\ fn = "semidefinite_relaxation" /\ pc = "ProblemAssembled"
    /\ solver_calls' = solver_calls + 1
    /\ \E st \in {"optimal", "infeasible", "solver_error"} :
        /\ status' = st
        /\ IF st = "optimal" THEN H_value' \in HValues ELSE H_value' = NoMatrix
    /\ pc' = "Solved"
    /\ UNCHANGED <<fn, edm_missing, edm_true, W, caller, rank, niter, method, i,
                   edm_complete, errs, W_local, exc, result>>

\* line 105: the solver raising, the exception propagating to the caller
SDR_SolverRaises ==
    /\ fn = "semidefinite_relaxation" /\ pc = "ProblemAssembled"
    /\ solver_calls' = solver_calls + 1
    /\ status' = "solver_error"
    /\ pc' = "Raised"
    /\ exc' = "SolverError"
    /\ UNCHANGED <<fn, edm_missing, edm_true, W, caller, rank, niter, method, i,
                   edm_complete, errs, W_local, H_value, result>>

\* lines 110-124: the completed EDM, or the fallback; return
SDR_Result ==
    /\ fn = "semidefinite_relaxation" /\ pc = "Solved"
    /\ \E c \in {Completed(H_value, edm_missing)} :
        /\ edm_complete' = c
        /\ result' = c
    /\ pc' = "Result"
    /\ UNCHANGED <<fn, edm_missing, edm_true, W, caller, rank, niter, method, i,
                   errs, W_local, H_value, status, solver_calls, exc>>

--------------------------------------------------------------------------
(* The structural step and the kernel transform on their own *)

\* What a run of one of the two functions below leaves untouched.
NoCall ==
    /\ edm_true = NoMatrix /\ W = NoMatrix
    /\ rank = 0 /\ niter = 0 /\ method = "None" /\ i = 0
    /\ errs = <<>> /\ W_local = NoMatrix /\ H_value = NoMatrix
    /\ status = "None" /\ solver_calls = 0 /\ exc = "None"

\* Entries of the matrices the structural step is applied to.
StructVals == {-Unit} \cup InputVals

InitStructure ==
    /\ fn = "impose_structure"
    /\ pc = "Called"
    /\ edm_missing \in Matrices(StructVals)
    /\ caller = Snapshot(edm_missing, NoMatrix, NoMatrix)
    /\ edm_complete = NoMatrix
    /\ result = NoMatrix
    /\ NoCall

\* lines 59-61 applied to the matrix
Structure_Once ==
    /\ fn = "impose_structure" /\ pc = "Called"
    /\ result' = ImposeStructure(edm_missing)
    /\ pc' = "Once"
    /\ UNCHANGED <<fn, edm_missing, edm_true, W, caller, rank, niter, method, i,
                   edm_complete, errs, W_local, H_value, status, solver_calls, exc>>

\* lines 59-61 applied to what they produced
Structure_Twice ==
    /\ fn = "impose_structure" /\ pc = "Once"
    /\ edm_complete' = ImposeStructure(result)
    /\ pc' = "Twice"
    /\ UNCHANGED <<fn, edm_missing, edm_true, W, caller, rank, niter, method, i,
                   errs, W_local, H_value, status, solver_calls, exc, result>>

SpecStructure == InitStructure /\ [][Structure_Once \/ Structure_Twice]_vars

\* Entries of the Gram-like matrices kappa is applied to.
GramVals == {<<p, q>> : p \in -1..MaxVal, q \in 0..1}

InitKappa ==
    /\ fn = "kappa"
    /\ pc = "Called"
    /\ edm_missing \in Matrices(GramVals)
    /\ caller = Snapshot(edm_missing, NoMatrix, NoMatrix)
    /\ edm_complete = NoMatrix
    /\ result = NoMatrix
    /\ NoCall

\* line 114 (numeric, into result) and line 96 (symbolic, evaluated, into
\* edm_complete) on the same matrix
Kappa_Apply ==
    /\ fn = "kappa" /\ pc = "Called"
    /\ result' = kappa(edm_missing)
    /\ edm_complete' = kappa_cvx(edm_missing, N)
    /\ pc' = "Applied"
    /\ UNCHANGED <<fn, edm_missing, edm_true, W, caller, rank, niter, method, i,
                   errs, W_local, H_value, status, solver_calls, exc>>

SpecKappa == InitKappa /\ [][Kappa_Apply]_vars

--------------------------------------------------------------------------
(* Specifications *)

Init == InitRA \/ InitOS \/ InitSDR

Next ==
    \/ RA_Start \/ RA_Iterate \/ RA_LinAlgError \/ RA_Return
    \/ OS_Factorize \/ OS_Return
    \/ SDR_BuildBasis \/ SDR_Assemble \/ SDR_UnboundObjective
    \/ SDR_Solve \/ SDR_SolverRaises \/ SDR_Result

Spec == Init /\ [][Next]_vars

NextSDR ==
    \/ SDR_BuildBasis \/ SDR_Assemble \/ SDR_UnboundObjective
    \/ SDR_Solve \/ SDR_SolverRaises \/ SDR_Result

SpecSDR == InitSDR /\ [][NextSDR]_vars

--------------------------------------------------------------------------
(* Properties *)

Returned == pc \in {"Returned", "Result"}
IsRA == fn = "rank_alternation"
IsOS == fn = "optspace"
IsSDR == fn = "semidefinite_relaxation"

\* No strictly positive entry: nothing was observed.
Degenerate(M) == \A a, b \in Idx : ~Gt0(M[a][b])

\* completed == completed.T as numpy evaluates it
NumSymmetric(M) == \A a, b \in Idx : NumEq(M[a][b], M[b][a])
\* mirrored entries hold the same value, NaN included
Mirrored(M) == \A a, b \in Idx : M[a][b] = M[b][a]

\* The caller's masked EDM holds at least one observed entry.
Observed ==
    \E a, b \in Idx :
        IF IsSDR THEN QGt0(edm_missing[a][b]) ELSE Gt0(edm_missing[a][b])

DiagonalZero(M) ==
    \A a \in Idx : IF IsSDR THEN M[a][a] = Q(0) ELSE NumEq(M[a][a], 0)

(* C1, as claimed: the matrix returned by any of the three completers has a
   zero diagonal, for every input and every solver outcome (stated here for
   the inputs that hold at least one observed entry and, for
   rank_alternation, the calls that run at least one iteration). *)
CE_C1 ==
    (Returned /\ Observed /\ (IsRA => niter >= 1)) => DiagonalZero(result)

(* C1, amended: the returned diagonal is zero for optspace, for
   rank_alternation when at least one iteration ran, and for
   semidefinite_relaxation when the solver produced a value; with niter = 0
   rank_alternation returns the diagonal of the filled copy, and the fallback
   of semidefinite_relaxation returns the diagonal of the input. *)
Thm_C1 ==
    Returned =>
        /\ IsOS => DiagonalZero(result)
        /\ (IsRA /\ niter >= 1) => DiagonalZero(result)
        /\ (IsRA /\ niter = 0) =>
              \A a \in Idx : result[a][a] =
                  IF edm_missing[a][a] = 0 THEN MeanPositive(edm_missing)
                  ELSE edm_missing[a][a]
        /\ (IsSDR /\ H_value # NoMatrix) => DiagonalZero(result)
        /\ (IsSDR /\ H_value = NoMatrix) =>
              \A a \in Idx : result[a][a] = caller.edm_missing[a][a]

Wit_C1 ==
    /\ IsSDR /\ pc = "Result" /\ H_value # NoMatrix /\ H_value[1][1] # Q(0)
    /\ \A a \in Idx : edm_missing[a][a] # Q(0)
    /\ DiagonalZero(result)

(* C2, as claimed: every observed entry (masked_edm[i,j] > 0) of the input is
   found unchanged in the matrix rank_alternation returns (stated here for
   the off-diagonal entries). *)
CE_C2 ==
    (IsRA /\ Returned) =>
        \A a, b \in Idx :
            (a # b /\ Gt0(edm_missing[a][b]))
                => NumEq(result[a][b], edm_missing[a][b])

(* C2, amended: an observed off-diagonal entry whose mirror entry holds the
   same measurement is found unchanged in the matrix rank_alternation
   returns; with niter = 0 every observed entry is. *)
Thm_C2 ==
    (IsRA /\ Returned) =>
        /\ \A a, b \in Idx :
              (a # b /\ Gt0(edm_missing[a][b]) /\ edm_missing[b][a] = edm_missing[a][b])
                  => NumEq(result[a][b], edm_missing[a][b])
        /\ niter = 0 =>
              \A a, b \in Idx :
                  Gt0(edm_missing[a][b]) => NumEq(result[a][b], edm_missing[a][b])

Wit_C2 ==
    /\ IsRA /\ Returned /\ niter >= 1
    /\ \E a, b \in Idx :
          /\ a # b /\ Gt0(edm_missing[a][b]) /\ edm_missing[b][a] = edm_missing[a][b]
          /\ NumEq(result[a][b], edm_missing[a][b])

(* C3: when the solver returns without a value for H, semidefinite_relaxation
   returns a matrix equal entry for entry to the input; when it returns a
   value, the result is the kernel transform of V H V^T. *)
Thm_C3 ==
    (IsSDR /\ pc = "Result") =>
        /\ H_value = NoMatrix =>
              (result = caller.edm_missing /\ result = edm_missing)
        /\ H_value # NoMatrix =>
              LET G == VHVt(H_value)
              IN \A a, b \in Idx :
                    result[a][b] =
                        QSub(QAdd(G[a][a], G[b][b]), QAdd(G[a][b], G[a][b]))

Wit_C3 ==
    /\ IsSDR /\ pc = "Result" /\ H_value = NoMatrix /\ status = "infeasible"
    /\ \E a, b \in Idx : QGt0(edm_missing[a][b])
    /\ W # caller.W
    /\ result = caller.edm_missing

(* C4, as claimed: on an input without a strictly positive entry
   rank_alternation runs no iteration and returns no matrix. *)
CE_C4 == (IsRA /\ Degenerate(edm_missing)) => (i = 0 /\ ~Returned)

(* C5, as claimed: the caller's matrices (masked EDM, ground-truth EDM,
   weight matrix W) hold, at every point of a call, the entries they held
   when the call started. *)
CE_C5 == Snapshot(edm_missing, edm_true, W) = caller

(* C6, as claimed: the matrix rank_alternation returns equals its transpose,
   for every input and every iteration budget, and so does the working
   estimate at the end of every iteration (stated here for the inputs that
   hold at least one observed entry). *)
CE_C6 ==
    (IsRA /\ ~Degenerate(edm_missing)) =>
        /\ Returned => NumSymmetric(result)
        /\ i >= 1 => NumSymmetric(edm_complete)

(* C6, amended: once an iteration has run (niter >= 1 for the returned
   matrix), mirrored entries of the working estimate and of the returned
   matrix hold the same value, and the matrix equals its transpose whenever
   it holds no NaN; NaN appears only for an input without observation. *)
Thm_C6 ==
    (IsRA /\ i >= 1) =>
        /\ Mirrored(edm_complete)
        /\ (~HasNaN(edm_complete)) => NumSymmetric(edm_complete)
        /\ HasNaN(edm_complete) => Degenerate(edm_missing)
        /\ Returned => (i = niter /\ result = edm_complete)

Wit_C6 ==
    /\ IsRA /\ Returned /\ niter >= 1
    /\ ~Mirrored(edm_missing)
    /\ NumSymmetric(result)

(* C7: the matrix rank_alternation returns has no negative entry, and
   neither has the working estimate at the end of an iteration. *)
Thm_C7 ==
    IsRA =>
        /\ Returned => \A a, b \in Idx : ~Lt0(result[a][b])
        /\ i >= 1 => \A a, b \in Idx : ~Lt0(edm_complete[a][b])

\* An off-diagonal zero: both mirrored entries were negative and clipped.
Wit_C7 ==
    /\ IsRA /\ Returned /\ niter >= 1
    /\ \E a, b \in Idx : a # b /\ result[a][b] = 0

ValidEDM(M) ==
    /\ \A a \in Idx : M[a][a] = 0
    /\ \A a, b \in Idx : M[a][b] = M[b][a] /\ M[a][b] >= 0

(* C8: the structural step returns a valid EDM (zero diagonal, symmetric,
   non-negative) unchanged, and applying it twice to any matrix gives what
   applying it once gives. *)
Thm_C8 ==
    fn = "impose_structure" =>
        /\ (pc # "Called" /\ ValidEDM(edm_missing)) => result = edm_missing
        /\ pc = "Twice" => edm_complete = result

Wit_C8 ==
    /\ fn = "impose_structure" /\ pc = "Twice"
    /\ ~ValidEDM(edm_missing)
    /\ \E a, b \in Idx : a # b /\ edm_missing[a][b] < 0 /\ edm_missing[b][a] > 0
    /\ edm_complete = result

SDROrder ==
    {<<"Init", "BasisBuilt">>, <<"BasisBuilt", "ProblemAssembled">>,
     <<"ProblemAssembled", "Solved">>, <<"Solved", "Result">>,
     <<"BasisBuilt", "Raised">>, <<"ProblemAssembled", "Raised">>}

InOrder == <<pc, pc'>> \in SDROrder

ValidMethod == method \in {"maximize", "minimize"}

(* C9, as claimed: every call of semidefinite_relaxation with an objective
   mode of maximize or minimize ends in Result, whatever the solver does. *)
CE_C9 == (IsSDR /\ ValidMethod) => pc # "Raised"

(* C9, amended: a call goes through Init, BasisBuilt, ProblemAssembled,
   Solved, Result in that order; the solver is invoked once and never
   retried; the call stops nowhere but in Result or in an exception; Result
   is reached whenever the solver call returns (with a value or without),
   and then a missing value gives the unmodified input; a call with a valid
   objective mode ends elsewhere only by the exception the solver call
   raised, which propagates. *)
Thm_C9 ==
    /\ [][InOrder]_vars
    /\ [](solver_calls = IF pc \in {"Init", "BasisBuilt", "ProblemAssembled"}
                            \/ exc = "UnboundLocalError"
                         THEN 0 ELSE 1)
    /\ []((pc = "Result" /\ H_value = NoMatrix) => result = caller.edm_missing)
    /\ []((pc = "Raised" /\ ValidMethod) => exc = "SolverError")
    /\ [](pc \in {"Result", "Raised"} \/ ENABLED NextSDR)
    /\ [](pc = "Solved" => ENABLED SDR_Result)

Wit_C9 ==
    /\ IsSDR /\ pc = "Result" /\ solver_calls = 1
    /\ status = "solver_error" /\ method = "minimize"
    /\ result = caller.edm_missing

(* C10: on every square matrix G the numeric kappa and the symbolic
   kappa_cvx give the same matrix, whose entry (i,j) is
   G[i,i] + G[j,j] - 2 G[i,j]; its diagonal is zero, and it is symmetric
   when G is. *)
Thm_C10 ==
    (fn = "kappa" /\ pc = "Applied") =>
        /\ result = edm_complete
        /\ \A a, b \in Idx :
              result[a][b] =
                  QSub(QAdd(edm_missing[a][a], edm_missing[b][b]),
                       QAdd(edm_missing[a][b], edm_missing[a][b]))
        /\ \A a \in Idx : result[a][a] = Q(0)
        /\ Mirrored(edm_missing) => Mirrored(result)

Wit_C10 ==
    /\ fn = "kappa" /\ pc = "Applied"
    /\ ~Mirrored(edm_missing)
    /\ \E a \in Idx : edm_missing[a][a] # Q(0)
    /\ \E a, b \in Idx : result[a][b] # Q(0)
    /\ result = edm_complete

==========================================================================
